---- MODULE Spec2Model ----
(***************************************************************************)
(* anki-breakdown-hatena-rss (src/main.go): one run fetches a feed, and    *)
(* for every item looks its fingerprint up in a persistent pebble store,   *)
(* skips it when a record exists, otherwise formats a note, posts it to    *)
(* AnkiConnect (AddNote) and records the returned id under the fingerprint.*)
(*                                                                         *)
(* Strings are sequences of one-character strings, so that strings.Join    *)
(* and fmt.Sprint are computed, not assumed.                               *)
(***************************************************************************)
EXTENDS Integers, Sequences, FiniteSets, TLC

VARIABLES
    feed,        \* feed.Items of the runs: the items gofeed delivered, in order
    args,        \* parseArgs(): [URL, Deck] of the current run
    phase,       \* "idle" | "loop" | "done" | "panicked": where main() is
    i,           \* index of the next item of `for _, item := range feed.Items`
    store,       \* the pebble store: fingerprint -> record
    runs,        \* number of runs of the program started so far
    last,        \* what the last loop iteration of the current run did (history)
    submitted,   \* triples for which an AddNote call created a note (history)
    resubmitted, \* triples for which more than one AddNote call created a note (history)
    lostWrite,   \* fingerprints for which a db.Set failed (history)
    writer,      \* fingerprint -> the triple whose iteration wrote its record (history)
    resp,        \* AddNote on its own: the response handed to it
    ret,         \* AddNote on its own: what it returned
    kin,         \* pebbleKey on its own: two triples of strings
    kout         \* pebbleKey on its own: their two fingerprints

vars == <<feed, args, phase, i, store, runs, last, submitted, resubmitted, lostWrite,
          writer, resp, ret, kin, kout>>

----------------------------------------------------------------------------
(* Bounds of the model *)

\* longest feed (len(feed.Items))
MaxItems == 2

\* number of runs of the program against the one store
MaxRuns == 2

\* longest string handed to pebbleKey on its own
MaxStrLen == 2

----------------------------------------------------------------------------
(* Strings *)

Nil == "nil"
None == "none"

RECURSIVE Join(_, _)
\* strings.Join(elems, sep)
Join(elems, sep) ==
    IF Len(elems) = 0 THEN <<>>
    ELSE IF Len(elems) = 1 THEN elems[1]
    ELSE elems[1] \o sep \o Join(Tail(elems), sep)

\* sha256.Sum256 taken as collision-free: the digest stands for exactly one input
Sum256(s) == <<"sha256">> \o s

\* a join that drops the deck name
pebbleKeyNoDeck(keys) == Sum256(Join(<<keys[1], keys[3]>>, <<":">>))

\* pebbleKey(keys ...string): SHA-256 of the colon-joined strings
pebbleKey(keys) == Sum256(Join(keys, <<":">>))

Digit(d) == CASE d = 0 -> "0" [] d = 1 -> "1" [] d = 2 -> "2" [] d = 3 -> "3"
              [] d = 4 -> "4" [] d = 5 -> "5" [] d = 6 -> "6" [] d = 7 -> "7"
              [] d = 8 -> "8" [] d = 9 -> "9"

RECURSIVE Digits(_)
Digits(n) == IF n < 10 THEN <<Digit(n)>> ELSE Digits(n \div 10) \o <<Digit(n % 10)>>

\* a rendering that prints nothing for the zero value
SprintOmitZero(n) == IF n = 0 THEN <<>> ELSE IF n < 0 THEN <<"-">> \o Digits(0 - n) ELSE Digits(n)

\* fmt.Sprint(r.Result) of an int64: its decimal rendering
Sprint(n) == IF n < 0 THEN <<"-">> \o Digits(0 - n) ELSE Digits(n)

----------------------------------------------------------------------------
(* The AnkiConnect client *)

\* http.StatusInternalServerError
StatusInternalServerError == 500

\* http.StatusBadRequest
StatusBadRequest == 400

\* the sentinel ErrHTTP400
ErrHTTP400 == "ErrHTTP400"

\* JSON values of a response body's field: absent, null, a number or a string
Absent == [t |-> "absent"]
JNull == [t |-> "null"]
JNum(n) == [t |-> "number", n |-> n]
JStr(s) == [t |-> "string", s |-> s]

\* a body that is no JSON document
Garbage == [kind |-> "garbage", result |-> Absent, error |-> Absent]

ResultValues == {Absent, JNull, JNum(0), JNum(12), JStr("x")}
ErrorValues == {Absent, JNull, JStr(""), JStr("dup")}
Bodies == {Garbage} \cup [kind : {"object"}, result : ResultValues, error : ErrorValues]

Statuses == {200, 399, 400, 499, 500, 503}

\* cl.Do failed: no response
DoFailed == [doErr |-> TRUE, StatusCode |-> 0, readErr |-> FALSE, body |-> Garbage]

\* what a.cl.Do(req) and io.ReadAll(resp.Body) can yield
Responses ==
    {DoFailed} \cup [doErr : {FALSE}, StatusCode : Statuses, readErr : BOOLEAN, body : Bodies]

\* a nil error
NilErr == [at |-> Nil, wraps |-> Nil]

\* xerrors.Errorf with or without a wrapped error
Errorf(at, wrapped) == [at |-> at, wraps |-> wrapped]

\* xerrors.Is(err, ErrHTTP400)
IsErrHTTP400(err) == err.wraps = ErrHTTP400

\* a nil *addNoteResult
NilResult == [isNil |-> TRUE, Result |-> 0, Error |-> ""]

\* addNoteResult{Result int64; Error string}
addNoteResult(result, error) == [isNil |-> FALSE, Result |-> result, Error |-> error]

\* json.Unmarshal(body, r): an absent or null field leaves the zero value, a value
\* of the wrong type and a body that is no JSON are errors
Unmarshal(body) ==
    IF body.kind = "garbage" THEN [err |-> "SyntaxError", r |-> NilResult]
    ELSE IF body.result.t = "string" \/ body.error.t = "number"
        THEN [err |-> "UnmarshalTypeError", r |-> NilResult]
    ELSE [err |-> Nil,
          r |-> addNoteResult(IF body.result.t = "number" THEN body.result.n ELSE 0,
                              IF body.error.t = "string" THEN body.error.s ELSE "")]

\* AddNote with the two status tests in the other order
AddNoteSwapped(rsp) ==
    IF rsp.doErr
        THEN [r |-> NilResult, err |-> Errorf("request.Do", "net"), parsed |-> FALSE]
    ELSE IF rsp.readErr
        THEN [r |-> NilResult, err |-> Errorf("ReadAll", "io"), parsed |-> FALSE]
    ELSE IF rsp.StatusCode >= StatusBadRequest
        THEN [r |-> NilResult, err |-> Errorf("status", ErrHTTP400), parsed |-> FALSE]
    ELSE IF rsp.StatusCode >= StatusInternalServerError
        THEN [r |-> NilResult, err |-> Errorf("status", None), parsed |-> FALSE]
    ELSE LET u == Unmarshal(rsp.body) IN
         IF u.err # Nil
             THEN [r |-> NilResult, err |-> Errorf("Unmarshal", u.err), parsed |-> TRUE]
         ELSE [r |-> u.r, err |-> NilErr, parsed |-> TRUE]

\* (a *anki) AddNote from the response on: (*addNoteResult, error), and whether
\* json.Unmarshal was reached
AddNote(rsp) ==
    IF rsp.doErr
        THEN [r |-> NilResult, err |-> Errorf("request.Do", "net"), parsed |-> FALSE]
    ELSE IF rsp.readErr
        THEN [r |-> NilResult, err |-> Errorf("ReadAll", "io"), parsed |-> FALSE]
    ELSE IF rsp.StatusCode >= StatusInternalServerError
        THEN [r |-> NilResult, err |-> Errorf("status", None), parsed |-> FALSE]
    ELSE IF rsp.StatusCode >= StatusBadRequest
        THEN [r |-> NilResult, err |-> Errorf("status", ErrHTTP400), parsed |-> FALSE]
    ELSE LET u == Unmarshal(rsp.body) IN
         IF u.err # Nil
             THEN [r |-> NilResult, err |-> Errorf("Unmarshal", u.err), parsed |-> TRUE]
         ELSE [r |-> u.r, err |-> NilErr, parsed |-> TRUE]

----------------------------------------------------------------------------
(* Feed items and the note front *)

\* -url of the runs, the -deck names and the item links the runs draw from; a deck
\* name and a link may hold the separator
URLS == {<<"u">>}
DECKS == {<<"a">>, <<"a", ":", "b">>}
LINKS == {<<"c">>, <<"b", ":", "c">>}

\* gofeed's ext.Extensions, map[string]map[string][]ext.Extension
ExtCount == [hatena |-> [bookmarkcount |-> <<[Value |-> "3"]>>]]
ExtEmptyList == [hatena |-> [bookmarkcount |-> <<>>]]
ExtOtherField == [hatena |-> [imageurl |-> <<[Value |-> "i"]>>]]
ExtNoHatena == [dc |-> [subject |-> <<[Value |-> "s"]>>]]
Exts == {ExtCount, ExtEmptyList, ExtOtherField, ExtNoHatena}

\* the fields of a gofeed.Item the loop reads; Image, PublishedParsed and Author
\* are pointers, nil when the feed has no such element
Item(link, image, published, author, ext) ==
    [Link |-> link, Image |-> image, PublishedParsed |-> published,
     Author |-> author, Extensions |-> ext]

\* the items the feeds are made of: two links, complete items with and without a
\* bookmark count, and items lacking an image, or a date and an author
Items ==
    {Item(<<"c">>, "set", "set", "set", ExtCount),
     Item(<<"b", ":", "c">>, "set", "set", "set", ExtNoHatena),
     Item(<<"c">>, Nil, "set", "set", ExtEmptyList),
     Item(<<"b", ":", "c">>, "set", Nil, Nil, ExtOtherField)}

RECURSIVE SeqsUpTo(_, _)
\* the sequences over S of length at most n
SeqsUpTo(S, n) ==
    IF n = 0 THEN {<<>>}
    ELSE LET shorter == SeqsUpTo(S, n - 1)
         IN shorter \cup {Append(q, x) : q \in {r \in shorter : Len(r) = n - 1}, x \in S}

Feeds == SeqsUpTo(Items, MaxItems)

\* safeGetBookmarkCount(extensions)
safeGetBookmarkCount(extensions) ==
    IF "hatena" \in DOMAIN extensions
    THEN LET hatena == extensions["hatena"] IN
         IF "bookmarkcount" \in DOMAIN hatena
         THEN LET bookmarkcount == hatena["bookmarkcount"] IN
              IF Len(bookmarkcount) > 0 THEN bookmarkcount[1].Value ELSE ""
         ELSE ""
    ELSE ""

\* the evaluation of fmt.Sprintf's arguments: item.Image.URL, item.PublishedParsed.In
\* and item.Author.Name dereference their pointer, and a nil one panics
Front(item) ==
    IF item.Image = Nil \/ item.PublishedParsed = Nil \/ item.Author = Nil
    THEN [panic |-> TRUE, Link |-> item.Link, Bookmark |-> ""]
    ELSE [panic |-> FALSE, Link |-> item.Link,
          Bookmark |-> safeGetBookmarkCount(item.Extensions)]

----------------------------------------------------------------------------
(* The pebble store *)

Triples == {<<u, d, l>> : u \in URLS, d \in DECKS, l \in LINKS}
Keys == {pebbleKey(t) : t \in Triples}

NoRecord == [has |-> FALSE, value |-> <<>>]
Record(value) == [has |-> TRUE, value |-> value]

ErrNotFound == "pebble.ErrNotFound"

\* db.Get(key): (value, closer, err); fault is an I/O error of the store
Get(st, key, fault) ==
    IF fault THEN [value |-> <<>>, closer |-> Nil, err |-> "io"]
    ELSE IF st[key].has THEN [value |-> st[key].value, closer |-> "set", err |-> Nil]
    ELSE [value |-> <<>>, closer |-> Nil, err |-> ErrNotFound]

\* db.Set(key, value, pebble.Sync): the store after it, and its error
Set(st, key, value, fault) ==
    IF fault THEN [st |-> st, err |-> "io"]
    ELSE [st |-> [st EXCEPT ![key] = Record(value)], err |-> Nil]

\* a duplicate test that never finds a duplicate
IsDupNever(value) == FALSE

\* len(value) != 0: the item was submitted before
IsDup(value) == Len(value) # 0

----------------------------------------------------------------------------
(* main(): the loop over feed.Items *)

\* a pass that records the fingerprint although AnkiConnect rejected the note
PassRecordsRejected(st, url, deck, item, getFault, closeFault, rsp, setFault) ==
    LET key == pebbleKey(<<url, deck, item.Link>>)
        got == Get(st, key, getFault)
        Ended(stage, st2, called, r) ==
            [stage |-> stage, key |-> key, triple |-> <<url, deck, item.Link>>,
             hadRecord |-> st[key].has, store |-> st2, called |-> called, r |-> r,
             canFormat |-> ~Front(item).panic]
    IN  IF got.err # Nil /\ got.err # ErrNotFound
            THEN Ended("getErr", st, FALSE, NilResult)
        ELSE IF got.closer # Nil /\ closeFault
            THEN Ended("closeErr", st, FALSE, NilResult)
        ELSE IF IsDup(got.value)
            THEN Ended("dup", st, FALSE, NilResult)
        ELSE IF Front(item).panic
            THEN Ended("panic", st, FALSE, NilResult)
        ELSE LET a == AddNote(rsp) IN
             IF a.err # NilErr
                 THEN Ended("addErr", st, TRUE, NilResult)
             ELSE IF a.r.Error # ""
                 THEN Ended("apiErr", Set(st, key, Sprint(a.r.Result), setFault).st, TRUE, a.r)
             ELSE LET w == Set(st, key, Sprint(a.r.Result), setFault) IN
                  IF w.err # Nil
                      THEN Ended("setErr", w.st, TRUE, a.r)
                  ELSE Ended("ok", w.st, TRUE, a.r)

\* one pass of the loop body for item, given what the store and AnkiConnect answer:
\* where the pass ended, the store after it, and the AddNote call it made
Pass(st, url, deck, item, getFault, closeFault, rsp, setFault) ==
    LET key == pebbleKey(<<url, deck, item.Link>>)
        got == Get(st, key, getFault)
        Ended(stage, st2, called, r) ==
            [stage |-> stage, key |-> key, triple |-> <<url, deck, item.Link>>,
             hadRecord |-> st[key].has, store |-> st2, called |-> called, r |-> r,
             canFormat |-> ~Front(item).panic]
    IN  IF got.err # Nil /\ got.err # ErrNotFound
            THEN Ended("getErr", st, FALSE, NilResult)
        ELSE IF got.closer # Nil /\ closeFault
            THEN Ended("closeErr", st, FALSE, NilResult)
        ELSE IF IsDup(got.value)
            THEN Ended("dup", st, FALSE, NilResult)
        ELSE IF Front(item).panic
            THEN Ended("panic", st, FALSE, NilResult)
        ELSE LET a == AddNote(rsp) IN
             IF a.err # NilErr
                 THEN Ended("addErr", st, TRUE, NilResult)
             ELSE IF a.r.Error # ""
                 THEN Ended("apiErr", st, TRUE, a.r)
             ELSE LET w == Set(st, key, Sprint(a.r.Result), setFault) IN
                  IF w.err # Nil
                      THEN Ended("setErr", w.st, TRUE, a.r)
                  ELSE Ended("ok", w.st, TRUE, a.r)

NoTriple == <<>>
NoLast ==
    [stage |-> None, key |-> <<>>, triple |-> NoTriple, hadRecord |-> FALSE,
     called |-> FALSE, canFormat |-> FALSE]

InitLoop ==
    /\ feed \in Feeds
    /\ args = [URL |-> <<>>, Deck |-> <<>>]
    /\ phase = "idle"
    /\ i = 1
    /\ store = [k \in Keys |-> NoRecord]
    /\ runs = 0
    /\ last = NoLast
    /\ submitted = {}
    /\ resubmitted = {}
    /\ lostWrite = {}
    /\ writer = [k \in Keys |-> NoTriple]

NoRet == [r |-> NilResult, err |-> NilErr, parsed |-> FALSE, returned |-> FALSE]

InitAddNote == resp = DoFailed /\ ret = NoRet

InitKey == kin = <<>> /\ kout = <<>>

Init == InitLoop /\ InitAddNote /\ InitKey

\* main() up to the loop: parseArgs, fp.ParseURL, mewPebble
StartRun(url, deck) ==
    /\ phase \in {"idle", "done", "panicked"}
    /\ runs < MaxRuns
    /\ args' = [URL |-> url, Deck |-> deck]
    /\ phase' = "loop"
    /\ i' = 1
    /\ runs' = runs + 1
    /\ last' = NoLast
    /\ UNCHANGED <<feed, store, submitted, resubmitted, lostWrite, writer,
                   resp, ret, kin, kout>>

\* one iteration of `for _, item := range feed.Items`
Iterate(getFault, closeFault, rsp, setFault) ==
    /\ phase = "loop"
    /\ i <= Len(feed)
    /\ LET e == Pass(store, args.URL, args.Deck, feed[i],
                     getFault, closeFault, rsp, setFault)
           created == e.stage \in {"setErr", "ok"}
       IN /\ store' = e.store
          /\ phase' = IF e.stage = "panic" THEN "panicked" ELSE "loop"
          /\ i' = IF e.stage = "panic" THEN i ELSE i + 1
          /\ last' = [stage |-> e.stage, key |-> e.key, triple |-> e.triple,
                      hadRecord |-> e.hadRecord, called |-> e.called,
                      canFormat |-> e.canFormat]
          /\ submitted' = IF created THEN submitted \cup {e.triple} ELSE submitted
          /\ resubmitted' = IF created /\ e.triple \in submitted
                            THEN resubmitted \cup {e.triple} ELSE resubmitted
          /\ lostWrite' = IF e.stage = "setErr" THEN lostWrite \cup {e.key} ELSE lostWrite
          /\ writer' = IF e.stage = "ok"
                       THEN [writer EXCEPT ![e.key] = e.triple] ELSE writer
    /\ UNCHANGED <<feed, args, runs, resp, ret, kin, kout>>

\* the loop ends after the last item; the deferred db.Close runs
FinishRun ==
    /\ phase = "loop"
    /\ i > Len(feed)
    /\ phase' = "done"
    /\ last' = NoLast
    /\ UNCHANGED <<feed, args, i, store, runs, submitted, resubmitted, lostWrite, writer,
                   resp, ret, kin, kout>>

\* what the store and AnkiConnect answer during one iteration: a failing db.Get, a
\* failing closer.Close, or a response to the request followed by db.Set
Response(status, readErr, body) ==
    [doErr |-> FALSE, StatusCode |-> status, readErr |-> readErr, body |-> body]

Created(result) == [kind |-> "object", result |-> result, error |-> JNull]
Rejected == [kind |-> "object", result |-> JNull, error |-> JStr("dup")]

\* responses after which AddNote fails, and the response after which it created a
\* note (AnkiConnect's result left out of the body: the zero value)
Failing ==
    {DoFailed, Response(500, FALSE, Garbage), Response(400, FALSE, Rejected),
     Response(200, FALSE, Garbage), Response(200, FALSE, Rejected)}
Creating == {Response(200, FALSE, Created(Absent))}

Answers ==
    [getFault : {TRUE}, closeFault : {FALSE}, rsp : {DoFailed}, setFault : {FALSE}]
    \cup [getFault : {FALSE}, closeFault : {TRUE}, rsp : {DoFailed}, setFault : {FALSE}]
    \cup [getFault : {FALSE}, closeFault : {FALSE}, rsp : Failing, setFault : {FALSE}]
    \cup [getFault : {FALSE}, closeFault : {FALSE}, rsp : Creating, setFault : BOOLEAN]

Next ==
    \/ \E url \in URLS, deck \in DECKS : StartRun(url, deck)
    \/ \E a \in Answers : Iterate(a.getFault, a.closeFault, a.rsp, a.setFault)
    \/ FinishRun

Spec == Init /\ [][Next]_vars

----------------------------------------------------------------------------
(* Two runs with the same -url and -deck in which the store and AnkiConnect
   answer every call with success *)

Succeeding ==
    [getFault : {FALSE}, closeFault : {FALSE}, rsp : Creating, setFault : {FALSE}]

NextReplay ==
    \/ \E url \in URLS, deck \in DECKS :
          (runs = 0 \/ (url = args.URL /\ deck = args.Deck)) /\ StartRun(url, deck)
    \/ \E a \in Succeeding : Iterate(a.getFault, a.closeFault, a.rsp, a.setFault)
    \/ FinishRun

SpecReplay == Init /\ [][NextReplay]_vars

----------------------------------------------------------------------------
(* AddNote on its own, over every response *)

InitIdle == InitLoop /\ feed = <<>>

CallAddNote ==
    /\ ~ret.returned
    /\ ret' = [r |-> AddNote(resp).r, err |-> AddNote(resp).err,
               parsed |-> AddNote(resp).parsed, returned |-> TRUE]
    /\ UNCHANGED <<feed, args, phase, i, store, runs, last, submitted, resubmitted,
                   lostWrite, writer, resp, kin, kout>>

InitResponse == InitIdle /\ InitKey /\ resp \in Responses /\ ret = NoRet

SpecAddNote == InitResponse /\ [][CallAddNote]_vars

----------------------------------------------------------------------------
(* pebbleKey on its own, over pairs of triples of strings *)

Strs == SeqsUpTo({"a", ":"}, MaxStrLen)
StrTriples == {<<u, d, l>> : u \in Strs, d \in Strs, l \in Strs}

CallPebbleKey ==
    /\ kout = <<>>
    /\ kout' = <<pebbleKey(kin[1]), pebbleKey(kin[2])>>
    /\ UNCHANGED <<feed, args, phase, i, store, runs, last, submitted, resubmitted,
                   lostWrite, writer, resp, ret, kin>>

InitTriples ==
    InitIdle /\ InitAddNote /\ kin \in StrTriples \X StrTriples /\ kout = <<>>

SpecKey == InitTriples /\ [][CallPebbleKey]_vars

----------------------------------------------------------------------------
(* The claims *)

\* the step is one iteration of the loop
Stepped == phase = "loop" /\ (i' = i + 1 \/ phase' = "panicked")

\* the triple of the item at position n of the feed in the current run
TripleAt(n) == <<args.URL, args.Deck, feed[n].Link>>

\* C1: when the program has run twice over the same feed with the same -url and
\* -deck and every store and AnkiConnect call succeeded, every iteration of the
\* second run skipped its item, and each item has exactly one note created for it.
C1_TwoRunsOneNoteEach ==
    /\ (runs = 2 /\ last.stage # None) => (last.stage = "dup" /\ ~last.called)
    /\ (runs = 2 /\ phase \in {"done", "panicked"}) =>
          /\ phase = "done"
          /\ \A n \in 1..Len(feed) : TripleAt(n) \in submitted \ resubmitted

\* C2 as claimed: whatever the store and AnkiConnect answer, no triple ever gets
\* more than one note created for it.
C2_AtMostOneNote == resubmitted = {}

\* C2 as amended: a triple gets more than one note created for it only when a
\* db.Set for its fingerprint has failed.
C2_AtMostOneNoteUnlessWriteFailed ==
    \A t \in resubmitted : pebbleKey(t) \in lostWrite

C2_Witness ==
    /\ runs = 2
    /\ last.stage = "dup"
    /\ last.triple \in submitted \ resubmitted
    /\ lostWrite = {}

\* C3: an iteration whose AddNote call failed, by a returned error or by a
\* non-empty error field, called AddNote and leaves the store as it was, with no
\* record under the item's fingerprint; and an iteration that finds no record under
\* its item's fingerprint, with the lookup succeeding and the item complete, calls
\* AddNote.
C3_FailureNonPersistence ==
    [][Stepped =>
         /\ (last'.stage \in {"addErr", "apiErr"} =>
                last'.called /\ store' = store /\ ~store'[last'.key].has)
         /\ (~store[last'.key].has /\ last'.stage \notin {"getErr", "closeErr"}
                /\ last'.canFormat => last'.called)]_vars

C3_Witness ==
    /\ runs = 2
    /\ last.stage = "apiErr"
    /\ last.triple \notin submitted
    /\ ~store[last.key].has

\* C4: two different triples of strings never get the same fingerprint.
C4_Injective ==
    (kout # <<>> /\ kin[1] # kin[2]) => kout[1] # kout[2]

C6_RecordLifecycle ==
    [][/\ \A k \in Keys : store[k].has => store'[k] = store[k]
       /\ (store' # store =>
              /\ Stepped
              /\ last'.stage = "ok"
              /\ last'.called
              /\ \A k \in Keys \ {last'.key} : store'[k] = store[k])
       /\ (Stepped /\ last'.stage = "ok" =>
              ~store[last'.key].has /\ store'[last'.key].has)]_vars

C6_Witness ==
    /\ runs = 2
    /\ last.stage = "ok"
    /\ \E k \in Keys \ {last.key} : store[k].has

\* C7 as claimed: of a response received, a status of 500 or more gives an error
\* not tagged ErrHTTP400 with the body unparsed, a status from 400 to 499 an error
\* tagged ErrHTTP400 with the body unparsed, and any other status a parsed body
\* and a result with no error.
C7_ClassifiedByStatus ==
    (ret.returned /\ ~resp.doErr) =>
        /\ resp.StatusCode >= 500 =>
              ret.err # NilErr /\ ~IsErrHTTP400(ret.err) /\ ~ret.parsed
        /\ (resp.StatusCode >= 400 /\ resp.StatusCode < 500) =>
              ret.err # NilErr /\ IsErrHTTP400(ret.err) /\ ~ret.parsed
        /\ resp.StatusCode < 400 =>
              ret.parsed /\ ret.err = NilErr /\ ~ret.r.isNil

\* C7 as amended: of a response whose body was read, a status of 500 or more gives
\* an error not tagged ErrHTTP400 with the body unparsed, a status from 400 to 499
\* an error tagged ErrHTTP400 with the body unparsed, and any other status a parsed
\* body, with a result and no error exactly when the body is a JSON document
\* fitting {result, error} and an untagged error otherwise; a response whose body
\* could not be read gives an untagged error whatever its status.
C7_ClassifiedByStatusWhenRead ==
    (ret.returned /\ ~resp.doErr) =>
        /\ resp.readErr =>
              ret.err # NilErr /\ ~IsErrHTTP400(ret.err) /\ ~ret.parsed
        /\ (~resp.readErr /\ resp.StatusCode >= 500) =>
              ret.err # NilErr /\ ~IsErrHTTP400(ret.err) /\ ~ret.parsed
        /\ (~resp.readErr /\ resp.StatusCode >= 400 /\ resp.StatusCode < 500) =>
              ret.err # NilErr /\ IsErrHTTP400(ret.err) /\ ~ret.parsed
        /\ (~resp.readErr /\ resp.StatusCode < 400) =>
              /\ ret.parsed
              /\ (ret.err = NilErr) = (Unmarshal(resp.body).err = Nil)
              /\ ret.err = NilErr => ret.r = Unmarshal(resp.body).r /\ ~ret.r.isNil
              /\ ret.err # NilErr => ~IsErrHTTP400(ret.err) /\ ret.r.isNil

C7_Witness ==
    /\ ret.returned
    /\ ~resp.doErr /\ ~resp.readErr
    /\ resp.StatusCode = 499
    /\ IsErrHTTP400(ret.err)

\* C8: a run that is over has examined every item of the feed, and an iteration
\* whose lookup failed called AddNote not at all.
C8_RunExaminesEveryItem ==
    /\ phase \in {"done", "panicked"} => i = Len(feed) + 1
    /\ last.stage \in {"getErr", "closeErr"} => ~last.called

\* C9: an iteration that did not skip its item, its lookup having succeeded,
\* called AddNote, whatever the item lacks.
C9_FormattingNeverAborts ==
    last.stage \notin {None, "getErr", "closeErr", "dup"} => last.called

\* C10: every record holds a non-empty value, so a fingerprint has a record exactly
\* when its lookup yields a non-empty value; and an iteration whose lookup succeeded
\* on a fingerprint with a record skipped the item without calling AddNote.
C10_RecordedImpliesSkipped ==
    /\ \A k \in Keys : store[k].has => Len(store[k].value) > 0
    /\ \A k \in Keys : store[k].has = IsDup(Get(store, k, FALSE).value)
    /\ (last.hadRecord /\ last.stage \notin {None, "getErr", "closeErr"}) =>
          (last.stage = "dup" /\ ~last.called)

C10_Witness ==
    /\ runs = 1
    /\ last.stage = "dup"
    /\ store[last.key].value = <<"0">>

====
